---- MODULE Spec2Model ----
(***************************************************************************)
(* Document ingestion pipelines of the RAG repository:                     *)
(*   U  UnifiedDocumentProcessor.process_directory                         *)
(*        (notebooks/load_chunk_to_langchain_docs.py)                      *)
(*   L  process_documents_to_langchain (load_chunk_embed.py)               *)
(*   D  DocumentProcessor.process_directory (notebooks/docling_test.py)    *)
(* A file name is a sequence of one-character strings, a path is the       *)
(* sequence of names below the root directory.                             *)
(***************************************************************************)
EXTENDS Integers, Sequences, FiniteSets, TLC

VARIABLES
    impl,               \* which entry point runs: "U", "L" or "D"
    recursive,          \* the recursive argument (L has none: always FALSE)
    root,               \* what documents_dir names: "dir", "missing", "file"
    tree,               \* the entries below the root directory
    oracle,             \* what converter and chunker do with each file
    pc,                 \* position of the run
    listing_ascending,  \* runs compared: did the listing come in ascending order
    all_files,          \* all_files / files
    idx,                \* 1-based position of the loop in all_files
    doc_type,           \* local doc_type of the file being processed
    conversion_result,  \* local conversion_result (U), result/doc (L)
    out,                \* all_langchain_documents / langchain_documents / results
    successful_docs,
    failed_docs,
    total_chunks,       \* L only
    proc,               \* the lazily built fields of the processor object
    built,              \* how many instances of each kind were constructed
    calls,              \* every call made to a converter or to the chunker
    result,             \* what the caller of the entry point gets
    failed_count,       \* D only: failed_count of _print_summary
    summary,            \* U, L: what the run printed as its final summary
    written,            \* D: the files of output_dir, each with the input it holds
    runs_left,          \* further runs on the same directory
    prev,               \* what the previous run returned
    mpc,                \* main(): position of the session loop
    stdin,              \* main(): the lines input() has yet to give
    consumed,           \* main(): the lines input() gave, as typed
    user_query,         \* main(): user_query
    agent_calls,        \* main(): every call of run_agent
    errors              \* main(): how many times "Error: ..." was printed

\* the arguments of the run and the directory it reads
env == <<impl, recursive, root, tree>>

\* what outlives a run
session == <<runs_left, prev>>

\* the interactive session of main.py
chat == <<mpc, stdin, consumed, user_query, agent_calls, errors>>

\* a batch run and what outlives it
batch == <<env, oracle, pc, listing_ascending, all_files, idx, doc_type,
           conversion_result, out, successful_docs, failed_docs, total_chunks,
           proc, built, calls, result, failed_count, summary, written,
           session>>

vars == <<batch, chat>>

----------------------------------------------------------------------------
(* Bounds of the model *)

MaxChunks == 2
MaxAtoms == 3
MaxReruns == 1
MaxLines == 4

----------------------------------------------------------------------------
(* Characters and strings *)

\* the characters of the model in code point order
Alphabet == <<".", "3", "4", "A", "C", "F", "L", "M", "P", "W",
              "a", "b", "c", "d", "f", "l", "m", "p", "s", "u", "v", "w">>

Ord(c) == CHOOSE i \in 1..Len(Alphabet) : Alphabet[i] = c

\* str.lower() on one character
LowerChar(c) ==
    CASE c = "A" -> "a" [] c = "C" -> "c" [] c = "F" -> "f" [] c = "L" -> "l"
      [] c = "M" -> "m" [] c = "P" -> "p" [] c = "W" -> "w" [] c = "E" -> "e"
      [] c = "I" -> "i" [] c = "Q" -> "q" [] c = "T" -> "t" [] c = "U" -> "u"
      [] c = "X" -> "x" [] OTHER -> c

\* str.lower()
Lower(s) == [i \in 1..Len(s) |-> LowerChar(s[i])]

\* str.rfind('.'), 0-based, -1 when there is no dot
RFindDot(s) ==
    LET dots == {i \in 1..Len(s) : s[i] = "."}
    IN  IF dots = {} THEN -1
        ELSE (CHOOSE i \in dots : \A j \in dots : j <= i) - 1

\* the name of a path: its final component
Name(path) == path[Len(path)]

\* PurePath.suffix: the text from the last dot of the name on, when that dot
\* is neither the first nor the last character of the name
Suffix(path) ==
    LET name == Name(path)
        i == RFindDot(name)
    IN  IF 0 < i /\ i < Len(name) - 1
        THEN SubSeq(name, i + 1, Len(name))
        ELSE <<>>

\* PurePath.stem
Stem(path) ==
    LET name == Name(path)
        i == RFindDot(name)
    IN  IF 0 < i /\ i < Len(name) - 1
        THEN SubSeq(name, 1, i)
        ELSE name

\* str < str: by code points, a proper prefix first
RECURSIVE StrLess(_, _)
StrLess(s, t) ==
    IF t = <<>> THEN FALSE
    ELSE IF s = <<>> THEN TRUE
    ELSE IF s[1] # t[1] THEN Ord(s[1]) < Ord(t[1])
    ELSE StrLess(Tail(s), Tail(t))

\* Path < Path: the parts compared as a list of strings
RECURSIVE PathLess(_, _)
PathLess(p, q) ==
    IF q = <<>> THEN FALSE
    ELSE IF p = <<>> THEN TRUE
    ELSE IF p[1] # q[1] THEN StrLess(p[1], q[1])
    ELSE PathLess(Tail(p), Tail(q))

RECURSIVE Insert(_, _)
Insert(p, s) ==
    IF s = <<>> THEN <<p>>
    ELSE IF PathLess(p, s[1]) THEN <<p>> \o s
    ELSE <<s[1]>> \o Insert(p, Tail(s))

RECURSIVE Sorted(_)
Sorted(s) == IF s = <<>> THEN <<>> ELSE Insert(s[1], Sorted(Tail(s)))

\* the list left in the order of the listing
Unsorted(s) == s

\* sorted(all_files)
sorted(s) == Sorted(s)

----------------------------------------------------------------------------
(* Format classifier *)

AUDIO == "audio"
TEXT == "text"

AUDIO_EXTENSIONS == { <<".", "m", "p", "3">>, <<".", "w", "a", "v">>,
                      <<".", "m", "4", "a">>, <<".", "f", "l", "a", "c">> }

\* a classifier that compares the suffix as written, without lower()
classify_case_sensitive(file_path) ==
    IF Suffix(file_path) \in AUDIO_EXTENSIONS THEN AUDIO ELSE TEXT

\* UnifiedDocumentProcessor._classify_document, DocumentProcessor._classify_document
classify_document(file_path) ==
    IF Lower(Suffix(file_path)) \in AUDIO_EXTENSIONS THEN AUDIO ELSE TEXT

----------------------------------------------------------------------------
(* The file system below documents_dir *)

F_AUDIO == << <<"a", ".", "M", "P", "3">> >>
F_MD == << <<"a", ".", "m", "d">> >>
F_WAV == << <<"b", ".", "w", "a", "v">> >>
D_SUB == << <<"s", "u", "b">> >>
F_SUB_MD == << <<"s", "u", "b">>, <<"a", ".", "m", "d">> >>

Universe == { [path |-> F_AUDIO, is_file |-> TRUE],
              [path |-> F_MD, is_file |-> TRUE],
              [path |-> F_WAV, is_file |-> TRUE],
              [path |-> D_SUB, is_file |-> FALSE],
              [path |-> F_SUB_MD, is_file |-> TRUE] }

Parent(path) == SubSeq(path, 1, Len(path) - 1)

\* a tree holds the directory of every entry it holds
Trees == { t \in SUBSET Universe :
             \A e \in t : Len(e.path) > 1 =>
                 [path |-> Parent(e.path), is_file |-> FALSE] \in t }

FilesOf(t) == { e.path : e \in { x \in t : x.is_file } }

RECURSIVE Orders(_)
Orders(S) ==
    IF S = {} THEN { <<>> }
    ELSE UNION { { <<x>> \o s : s \in Orders(S \ {x}) } : x \in S }

\* the orders a listing of the entries S can come in: a directory is listed
\* before what it holds
Listings(S) ==
    { s \in Orders(S) :
        \A i, j \in 1..Len(s) :
            (Len(s[j].path) > 1 /\ s[i].path = Parent(s[j].path)) => i < j }

\* documents_path.iterdir(): the immediate children
iterdir(t) == { e \in t : Len(e.path) = 1 }

\* documents_path.rglob('*'): every entry below the root; nothing when the
\* root is no directory
rglob(t, r) == IF r = "dir" THEN t ELSE {}

\* [f for f in listing if f.is_file()]
RECURSIVE RegularFiles(_)
RegularFiles(s) ==
    IF s = <<>> THEN <<>>
    ELSE IF s[1].is_file THEN <<s[1].path>> \o RegularFiles(Tail(s))
    ELSE RegularFiles(Tail(s))

\* the orders the regular files of a listing of S can come in
FileOrders(S) == { RegularFiles(s) : s \in Listings(S) }

\* FileOrders, tabulated for the directories of the universe
FileOrdersTable == [S \in SUBSET Universe |-> FileOrders(S)]

\* the exception iterdir() raises on a root that is no directory
IterdirError(r) ==
    IF r = "missing" THEN "FileNotFoundError" ELSE "NotADirectoryError"

----------------------------------------------------------------------------
(* What the external calls do: converter.convert, chunker.chunk and        *)
(* chunker.contextualize either return or raise.                           *)

\* nothing is known yet of what the calls on a file do
Unset == [conv |-> "unset", nchunks |-> -1, raiseAt |-> -1]

\* conv: what converter.convert does with the file: "ok" when it returns,
\* else why it raises
Causes == {"ok", "ffmpeg_missing", "vanished", "vanished_late", "rejected"}

\* nchunks: how many chunks chunker.chunk yields;
\* raiseAt: -1 when chunker.chunk raises, i < nchunks when contextualize
\*          raises on chunk i, nchunks when neither raises
ChunkBehaviours ==
    { c \in [nchunks : 0..MaxChunks, raiseAt : -1..MaxChunks] :
        c.raiseAt <= c.nchunks }

\* the name ends in a dot and an audio extension, in any case
HasAudioExtension(path) ==
    \E e \in AUDIO_EXTENSIONS :
        /\ Len(Name(path)) > Len(e)
        /\ Lower(SubSeq(Name(path), Len(Name(path)) - Len(e) + 1, Len(Name(path)))) = e

\* what a conversion of the file can do under an entry point: the toolchain
\* is needed for audio alone, and D alone looks whether the file exists
\* before it converts it
PossibleCauses(i, path) ==
    { c \in Causes :
        /\ c = "ffmpeg_missing" => HasAudioExtension(path)
        /\ c = "vanished_late" => i = "D" }

\* the exception a failing conversion raises
ConvertError(cause) ==
    CASE cause = "ffmpeg_missing" ->
            [cls |-> "FileNotFoundError", msg |-> <<"No such file or directory: 'ffmpeg'">>]
      [] cause \in {"vanished", "vanished_late"} ->
            [cls |-> "FileNotFoundError", msg |-> <<"No such file or directory">>]
      [] OTHER ->
            [cls |-> "ConversionError", msg |-> <<"conversion failed">>]

ChunkError == [cls |-> "ChunkingError", msg |-> <<"malformed document">>]

\* handlers that let everything but FileNotFoundError through
CatchesOnlyFileNotFound(handler, e) == e.cls = "FileNotFoundError"

\* except <handler>: does the clause catch e? Every exception of the model
\* is an Exception
Catches(handler, e) ==
    IF handler = "Exception" THEN TRUE ELSE e.cls = handler

----------------------------------------------------------------------------
(* State shared by the three entry points *)

NoProcessor == [text_converter |-> 0, audio_converter |-> 0,
                tokenizer |-> 0, chunker |-> 0]
NoneBuilt == [text |-> 0, audio |-> 0, tokenizer |-> 0, chunker |-> 0]
NoConversion == [filename |-> <<>>, success |-> FALSE, error_message |-> <<>>]
NoResult == [kind |-> "none", exc |-> "", value |-> <<>>]

\* output_dir before the run: no file
NoFiles == [p \in {} |-> <<>>]

\* no summary was printed
NoSummary == [printed |-> FALSE, successful |-> 0, total |-> 0, records |-> 0,
              failed |-> <<>>]

\* the entry point has returned or raised
Ended == pc \in {"done", "raised"}

Returned(v) == [kind |-> "return", exc |-> "", value |-> v]
Raised(cls) == [kind |-> "raise", exc |-> cls, value |-> <<>>]

file_path == all_files[idx]

\* what converter.convert does with the current file: chosen at the first
\* call on the file, the same at every later call
Converts(c) ==
    /\ c \in (IF oracle[file_path].conv = "unset"
              THEN PossibleCauses(impl, file_path) ELSE {oracle[file_path].conv})
    /\ oracle' = [oracle EXCEPT ![file_path].conv = c]

\* what the chunker does with the current file, chosen likewise
Chunks(b) ==
    /\ b \in (IF oracle[file_path].nchunks < 0 THEN ChunkBehaviours
              ELSE {[nchunks |-> oracle[file_path].nchunks,
                     raiseAt |-> oracle[file_path].raiseAt]})
    /\ oracle' = [oracle EXCEPT ![file_path].nchunks = b.nchunks,
                                ![file_path].raiseAt = b.raiseAt]

\* the listing the entry point gets: iterdir(), or rglob('*') when recursive
Listed == IF recursive THEN rglob(tree, root) ELSE iterdir(tree)

\* [f for f in listing if f.is_file()], in each order the listing can come in
ListedFiles ==
    IF Listed \subseteq Universe THEN FileOrdersTable[Listed] ELSE FileOrders(Listed)

\* iterdir() on a root that is no directory raises
ListingRaises == ~recursive /\ root # "dir"

NoPrev == [result |-> NoResult, listing_ascending |-> TRUE]

\* several runs on one directory are compared: the order of each listing is
\* then kept for the comparison
Compared == runs_left > 0 \/ prev # NoPrev

\* what is kept of the order the listing came in
Ascending(files) == Compared => files = Sorted(files)

\* the position after the current file
NextFile(again, finish) ==
    /\ idx' = idx + 1
    /\ pc' = IF idx < Len(all_files) THEN again ELSE finish

\* the text_converter property
text_converter(st) ==
    IF st.proc.text_converter = 0
    THEN [proc |-> [st.proc EXCEPT !.text_converter = st.built.text + 1],
          built |-> [st.built EXCEPT !.text = @ + 1]]
    ELSE st

\* the audio_converter property
audio_converter(st) ==
    IF st.proc.audio_converter = 0
    THEN [proc |-> [st.proc EXCEPT !.audio_converter = st.built.audio + 1],
          built |-> [st.built EXCEPT !.audio = @ + 1]]
    ELSE st

\* the tokenizer property
tokenizer(st) ==
    IF st.proc.tokenizer = 0
    THEN [proc |-> [st.proc EXCEPT !.tokenizer = st.built.tokenizer + 1],
          built |-> [st.built EXCEPT !.tokenizer = @ + 1]]
    ELSE st

\* the chunker property: builds the chunker on the tokenizer property
chunker(st) ==
    IF st.proc.chunker = 0
    THEN LET t == tokenizer(st)
         IN  [proc |-> [t.proc EXCEPT !.chunker = t.built.chunker + 1],
              built |-> [t.built EXCEPT !.chunker = @ + 1]]
    ELSE st

Call(op, kind, inst) ==
    [op |-> op, file |-> file_path, kind |-> kind, inst |-> inst]

----------------------------------------------------------------------------
(* U: UnifiedDocumentProcessor *)

FFMPEG_U == <<"FFmpeg not found (required for audio files)">>

\* a conversion that reports success whatever the converter did
convert_document_always_success(dt, name, cause) ==
    [propagates |-> FALSE, exc |-> "",
     cr |-> [filename |-> name, success |-> TRUE, error_message |-> <<>>]]

\* _convert_document from the try on: the ConversionResult of a conversion
\* that returns (cause = "ok") or raises
convert_document(dt, name, cause) ==
    IF cause = "ok"
    THEN [propagates |-> FALSE, exc |-> "",
          cr |-> [filename |-> name, success |-> TRUE, error_message |-> <<>>]]
    ELSE LET e == ConvertError(cause)
         IN  IF Catches("FileNotFoundError", e)
             THEN [propagates |-> FALSE, exc |-> "",
                   cr |-> [filename |-> name, success |-> FALSE,
                           error_message |-> IF dt = AUDIO THEN FFMPEG_U ELSE e.msg]]
             ELSE IF Catches("Exception", e)
             THEN [propagates |-> FALSE, exc |-> "",
                   cr |-> [filename |-> name, success |-> FALSE,
                           error_message |-> e.msg]]
             ELSE [propagates |-> TRUE, exc |-> e.cls, cr |-> NoConversion]

\* a record that carries the count of the chunks up to its own
U_Document_running_total(source_path, i, n) ==
    [page_content |-> <<source_path, i>>,
     source |-> source_path,
     source_name |-> Name(source_path),
     document_chunk_index |-> i,
     total_chunks_in_document |-> i + 1,
     file_format |-> Suffix(source_path)]

\* one record of _chunk_document: chunk i of the n chunks of source_path
U_Document(source_path, i, n) ==
    [page_content |-> <<source_path, i>>,
     source |-> source_path,
     source_name |-> Name(source_path),
     document_chunk_index |-> i,
     total_chunks_in_document |-> n,
     file_format |-> Suffix(source_path)]

\* _chunk_document: the records of the n chunks
chunk_document(source_path, n) ==
    [k \in 1..n |-> U_Document(source_path, k - 1, n)]

\* process_directory up to the loop
U_Start ==
    /\ impl = "U" /\ pc = "start"
    /\ IF ListingRaises
       THEN /\ pc' = "raised"
            /\ result' = Raised(IterdirError(root))
            /\ UNCHANGED <<all_files, listing_ascending>>
       ELSE \E files \in ListedFiles :
              /\ all_files' = sorted(files)
              /\ listing_ascending' = Ascending(files)
              /\ IF all_files' = <<>>
                 THEN pc' = "done" /\ result' = Returned(<<>>)
                 ELSE pc' = "u_classify" /\ result' = result
    /\ idx' = 1
    /\ out' = <<>> /\ successful_docs' = 0 /\ failed_docs' = <<>>
    /\ UNCHANGED <<env, chat, written, summary, oracle, doc_type, conversion_result,
                   total_chunks, proc, built, calls, failed_count, session>>

\* _convert_document, its first lines: the classification
U_Classify ==
    /\ impl = "U" /\ pc = "u_classify"
    /\ doc_type' = classify_document(file_path)
    /\ pc' = "u_convert"
    /\ UNCHANGED <<env, chat, written, summary, oracle, listing_ascending, all_files, idx,
                   conversion_result, out, successful_docs, failed_docs,
                   total_chunks, proc, built, calls, result, failed_count,
                   session>>

\* _convert_document from the try on
U_Convert ==
    /\ impl = "U" /\ pc = "u_convert"
    /\ \E cause \in Causes :
         /\ Converts(cause)
         /\ LET st == IF doc_type = AUDIO
                      THEN audio_converter([proc |-> proc, built |-> built])
                      ELSE text_converter([proc |-> proc, built |-> built])
                inst == IF doc_type = AUDIO THEN st.proc.audio_converter
                        ELSE st.proc.text_converter
                r == convert_document(doc_type, Name(file_path), cause)
            IN  /\ proc' = st.proc /\ built' = st.built
                /\ calls' = Append(calls, Call("convert", doc_type, inst))
                /\ conversion_result' = r.cr
                /\ IF r.propagates
                   THEN pc' = "raised" /\ result' = Raised(r.exc)
                   ELSE pc' = "u_chunk" /\ result' = result
    /\ UNCHANGED <<env, chat, written, summary, listing_ascending, all_files, idx, doc_type, out,
                   successful_docs, failed_docs, total_chunks, failed_count,
                   session>>

\* the loop body of process_directory after the conversion
U_Chunk ==
    /\ impl = "U" /\ pc = "u_chunk"
    /\ IF ~conversion_result.success
       THEN /\ failed_docs' = Append(failed_docs,
                                <<Name(file_path), conversion_result.error_message>>)
            /\ NextFile("u_classify", "u_finish")
            /\ UNCHANGED <<oracle, out, successful_docs, proc, built, calls, result>>
       ELSE \E b \in ChunkBehaviours :
            LET st == chunker([proc |-> proc, built |-> built])
            IN  /\ Chunks(b)
                /\ proc' = st.proc /\ built' = st.built
                /\ calls' = Append(calls, Call("chunk", "chunker", st.proc.chunker))
                /\ IF b.raiseAt = b.nchunks
                   THEN /\ out' = out \o chunk_document(file_path, b.nchunks)
                        /\ successful_docs' = successful_docs + 1
                        /\ NextFile("u_classify", "u_finish")
                        /\ UNCHANGED <<failed_docs, result>>
                   ELSE IF Catches("Exception", ChunkError)
                   THEN /\ failed_docs' = Append(failed_docs,
                                <<Name(file_path), <<"Chunking failed: ">> \o ChunkError.msg>>)
                        /\ NextFile("u_classify", "u_finish")
                        /\ UNCHANGED <<out, successful_docs, result>>
                   ELSE /\ pc' = "raised" /\ result' = Raised(ChunkError.cls)
                        /\ UNCHANGED <<idx, out, successful_docs, failed_docs>>
    /\ UNCHANGED <<env, chat, written, summary, listing_ascending, all_files, doc_type,
                   conversion_result, total_chunks, failed_count, session>>

\* a summary that keeps the names of the failures and drops the messages
U_print_summary_names(files, successful, failed, documents) ==
    [printed |-> TRUE, successful |-> successful, total |-> Len(files),
     records |-> Len(documents),
     failed |-> [k \in 1..Len(failed) |->
                    [filename |-> failed[k][1], error |-> <<>>]]]

\* _print_summary: the counts and one line "filename: error" per failure
U_print_summary(files, successful, failed, documents) ==
    [printed |-> TRUE, successful |-> successful, total |-> Len(files),
     records |-> Len(documents),
     failed |-> [k \in 1..Len(failed) |->
                    [filename |-> failed[k][1], error |-> failed[k][2]]]]

\* _print_summary and the return
U_Finish ==
    /\ impl = "U" /\ pc = "u_finish"
    /\ summary' = U_print_summary(all_files, successful_docs, failed_docs, out)
    /\ pc' = "done"
    /\ result' = Returned(out)
    /\ UNCHANGED <<env, chat, written, oracle, listing_ascending, all_files, idx, doc_type,
                   conversion_result, out, successful_docs, failed_docs,
                   total_chunks, proc, built, calls, failed_count, session>>

----------------------------------------------------------------------------
(* L: load_chunk_embed.process_documents_to_langchain *)

\* one Document of the loop over the chunks
L_Document(source_path, base, i, n) ==
    [page_content |-> <<source_path, i>>,
     source |-> source_path,
     source_name |-> Name(source_path),
     chunk_index |-> base + i,
     document_chunk_index |-> i,
     total_chunks_in_document |-> n]

\* the Documents the loop over the n chunks appends before it ends, normally
\* (built = n) or by an exception of contextualize (built < n)
L_Documents(source_path, base, n, made) ==
    [k \in 1..made |-> L_Document(source_path, base, k - 1, n)]

\* the function up to the loop
L_Start ==
    /\ impl = "L" /\ pc = "start"
    /\ IF ListingRaises
       THEN /\ pc' = "raised"
            /\ result' = Raised(IterdirError(root))
            /\ UNCHANGED <<all_files, listing_ascending, proc, built>>
       ELSE \E files \in ListedFiles :
              /\ all_files' = sorted(files)
              /\ listing_ascending' = Ascending(files)
              /\ IF all_files' = <<>>
                 THEN /\ pc' = "done" /\ result' = Returned(<<>>)
                      /\ UNCHANGED <<proc, built>>
                 ELSE /\ pc' = "l_convert" /\ result' = result
                      /\ proc' = [proc EXCEPT !.tokenizer = built.tokenizer + 1,
                                              !.chunker = built.chunker + 1]
                      /\ built' = [built EXCEPT !.tokenizer = @ + 1, !.chunker = @ + 1]
    /\ idx' = 1
    /\ out' = <<>> /\ total_chunks' = 0 /\ successful_docs' = 0 /\ failed_docs' = <<>>
    /\ UNCHANGED <<env, chat, written, summary, oracle, doc_type, conversion_result,
                   calls, failed_count, session>>

\* the try block up to result.document
L_Convert ==
    /\ impl = "L" /\ pc = "l_convert"
    /\ \E cause \in Causes :
         /\ Converts(cause)
         /\ LET inst == built.text + 1
                e == ConvertError(cause)
            IN  /\ proc' = [proc EXCEPT !.text_converter = inst]
                /\ built' = [built EXCEPT !.text = inst]
                /\ calls' = Append(calls, Call("convert", TEXT, inst))
                /\ IF cause = "ok"
                   THEN /\ pc' = "l_chunk"
                        /\ UNCHANGED <<idx, failed_docs, result>>
                   ELSE IF Catches("Exception", e)
                   THEN /\ failed_docs' = Append(failed_docs, Name(file_path))
                        /\ NextFile("l_convert", "l_finish")
                        /\ UNCHANGED result
                   ELSE /\ pc' = "raised" /\ result' = Raised(e.cls)
                        /\ UNCHANGED <<idx, failed_docs>>
    /\ UNCHANGED <<env, chat, written, summary, listing_ascending, all_files, doc_type, conversion_result,
                   out, successful_docs, total_chunks, failed_count, session>>

\* the try block from chunker.chunk on, and the except clause
L_Chunk ==
    /\ impl = "L" /\ pc = "l_chunk"
    /\ \E b \in ChunkBehaviours :
       LET made == IF b.raiseAt < 0 THEN 0 ELSE b.raiseAt
       IN  /\ Chunks(b)
           /\ calls' = Append(calls, Call("chunk", "chunker", proc.chunker))
           /\ out' = out \o L_Documents(file_path, total_chunks, b.nchunks, made)
           /\ IF b.raiseAt = b.nchunks
              THEN /\ total_chunks' = total_chunks + b.nchunks
                   /\ successful_docs' = successful_docs + 1
                   /\ NextFile("l_convert", "l_finish")
                   /\ UNCHANGED <<failed_docs, result>>
              ELSE IF Catches("Exception", ChunkError)
              THEN /\ failed_docs' = Append(failed_docs, Name(file_path))
                   /\ NextFile("l_convert", "l_finish")
                   /\ UNCHANGED <<total_chunks, successful_docs, result>>
              ELSE /\ pc' = "raised" /\ result' = Raised(ChunkError.cls)
                   /\ UNCHANGED <<idx, total_chunks, successful_docs, failed_docs>>
    /\ UNCHANGED <<env, chat, written, summary, listing_ascending, all_files, doc_type,
                   conversion_result, proc, built, failed_count, session>>

\* the final summary: the counts and one line with the name per failure
L_print_summary(files, successful, failed, documents) ==
    [printed |-> TRUE, successful |-> successful, total |-> Len(files),
     records |-> Len(documents),
     failed |-> [k \in 1..Len(failed) |-> [filename |-> failed[k]]]]

\* the final summary and the return
L_Finish ==
    /\ impl = "L" /\ pc = "l_finish"
    /\ summary' = L_print_summary(all_files, successful_docs, failed_docs, out)
    /\ pc' = "done"
    /\ result' = Returned(out)
    /\ UNCHANGED <<env, chat, written, oracle, listing_ascending, all_files, idx, doc_type,
                   conversion_result, out, successful_docs, failed_docs,
                   total_chunks, proc, built, calls, failed_count, session>>

----------------------------------------------------------------------------
(* D: DocumentProcessor *)

FFMPEG_D == <<"FFmpeg not found. Please install FFmpeg and ensure it's in PATH.">>

Failed(path, msg) ==
    [filename |-> Name(path), file_format |-> Suffix(path), status |-> "Failed",
     output_path |-> <<>>, error_message |-> msg]

Success(path) ==
    [filename |-> Name(path), file_format |-> Suffix(path), status |-> "Success",
     output_path |-> Stem(path) \o <<".", "m", "d">>, error_message |-> <<>>]

\* output_path.write_text(...): the file at output_path is created or
\* replaced and holds the conversion of the input
write_text(dir, output_path, input) ==
    [p \in DOMAIN dir \cup {output_path} |->
        IF p = output_path THEN input ELSE dir[p]]

\* _process_text_document: the ProcessingResult
process_text_document(path, cause) ==
    IF cause = "ok" THEN [propagates |-> FALSE, exc |-> "", pr |-> Success(path)]
    ELSE LET e == ConvertError(cause)
         IN  IF Catches("Exception", e)
             THEN [propagates |-> FALSE, exc |-> "", pr |-> Failed(path, e.msg)]
             ELSE [propagates |-> TRUE, exc |-> e.cls, pr |-> Failed(path, <<>>)]

\* _process_audio_document: the ProcessingResult
process_audio_document(path, cause) ==
    IF cause = "ok" THEN [propagates |-> FALSE, exc |-> "", pr |-> Success(path)]
    ELSE LET e == ConvertError(cause)
         IN  IF Catches("FileNotFoundError", e)
             THEN [propagates |-> FALSE, exc |-> "", pr |-> Failed(path, FFMPEG_D)]
             ELSE IF Catches("Exception", e)
             THEN [propagates |-> FALSE, exc |-> "", pr |-> Failed(path, e.msg)]
             ELSE [propagates |-> TRUE, exc |-> e.cls, pr |-> Failed(path, <<>>)]

\* process_directory up to the list of results: no sorting here
D_Start ==
    /\ impl = "D" /\ pc = "start"
    /\ IF ListingRaises
       THEN /\ pc' = "raised"
            /\ result' = Raised(IterdirError(root))
            /\ UNCHANGED <<all_files, listing_ascending>>
       ELSE \E files \in ListedFiles :
              /\ all_files' = files
              /\ listing_ascending' = Ascending(files)
              /\ pc' = IF all_files' = <<>> THEN "d_finish" ELSE "d_file"
              /\ result' = result
    /\ idx' = 1
    /\ out' = <<>>
    /\ UNCHANGED <<env, chat, written, summary, oracle, doc_type, conversion_result,
                   successful_docs, failed_docs, total_chunks, proc, built, calls,
                   failed_count, session>>

\* process_document on the current file
D_File ==
    /\ impl = "D" /\ pc = "d_file"
    /\ \E cause \in Causes :
         /\ Converts(cause)
         /\ IF cause = "vanished"
            THEN \* file_path.exists() is false
                 /\ out' = Append(out, Failed(file_path, <<"File not found">>))
                 /\ NextFile("d_file", "d_finish")
                 /\ UNCHANGED <<doc_type, proc, built, calls, result, written>>
            ELSE LET dt == classify_document(file_path)
                     st == IF dt = AUDIO
                           THEN audio_converter([proc |-> proc, built |-> built])
                           ELSE text_converter([proc |-> proc, built |-> built])
                     inst == IF dt = AUDIO THEN st.proc.audio_converter
                             ELSE st.proc.text_converter
                     r == IF dt = AUDIO THEN process_audio_document(file_path, cause)
                          ELSE process_text_document(file_path, cause)
                 IN  /\ doc_type' = dt
                     /\ proc' = st.proc /\ built' = st.built
                     /\ calls' = Append(calls, Call("convert", dt, inst))
                     /\ written' = IF r.pr.status = "Success"
                                   THEN write_text(written, r.pr.output_path, file_path)
                                   ELSE written
                     /\ IF r.propagates
                        THEN /\ pc' = "raised" /\ result' = Raised(r.exc)
                             /\ UNCHANGED <<idx, out>>
                        ELSE /\ out' = Append(out, r.pr)
                             /\ NextFile("d_file", "d_finish")
                             /\ UNCHANGED result
    /\ UNCHANGED <<env, chat, summary, listing_ascending, all_files, conversion_result,
                   successful_docs, failed_docs, total_chunks, failed_count,
                   session>>

\* a count that takes every result for a success
CountsEveryResult(results) == Len(results)

\* sum(1 for r in results if r.success)
RECURSIVE SuccessCount(_)
SuccessCount(results) ==
    IF results = <<>> THEN 0
    ELSE (IF results[1].status = "Success" THEN 1 ELSE 0) + SuccessCount(Tail(results))

\* _print_summary and the return
D_Finish ==
    /\ impl = "D" /\ pc = "d_finish"
    /\ successful_docs' = SuccessCount(out)
    /\ failed_count' = Len(out) - SuccessCount(out)
    /\ pc' = "done"
    /\ result' = Returned(out)
    /\ UNCHANGED <<env, chat, written, summary, oracle, listing_ascending, all_files, idx, doc_type,
                   conversion_result, out, failed_docs, total_chunks, proc, built,
                   calls, session>>

----------------------------------------------------------------------------
(* Specifications *)

\* main() is not running
Idle ==
    /\ mpc = "idle" /\ stdin = <<>> /\ consumed = <<>> /\ user_query = <<>>
    /\ agent_calls = <<>> /\ errors = 0

\* the state before a run starts
Fresh ==
    /\ pc = "start"
    /\ listing_ascending = TRUE /\ all_files = <<>> /\ idx = 1
    /\ doc_type = "none" /\ conversion_result = NoConversion
    /\ out = <<>> /\ successful_docs = 0 /\ failed_docs = <<>>
    /\ total_chunks = 0 /\ failed_count = 0
    /\ proc = NoProcessor /\ built = NoneBuilt /\ calls = <<>>
    /\ result = NoResult
    /\ summary = NoSummary
    /\ written = NoFiles


\* one run of one entry point on any directory of the universe
Init ==
    /\ impl \in {"U", "L", "D"}
    /\ recursive \in (IF impl = "L" THEN {FALSE} ELSE BOOLEAN)
    /\ root \in {"dir", "missing", "file"}
    /\ tree \in (IF root = "dir" THEN Trees ELSE {{}})
    /\ oracle = [f \in FilesOf(tree) |-> Unset]
    /\ Fresh /\ Idle
    /\ runs_left = 0
    /\ prev = NoPrev

NextU == U_Start \/ U_Classify \/ U_Convert \/ U_Chunk \/ U_Finish

NextL == L_Start \/ L_Convert \/ L_Chunk \/ L_Finish

NextD == D_Start \/ D_File \/ D_Finish

Next == NextU \/ NextL \/ NextD

Spec == Init /\ [][Next]_vars

\* a batch run that yields records, U or L; the interpreter runs the entry
\* point on until it returns or raises
InitBatch == Init /\ impl \in {"U", "L"}

NextBatch == NextU \/ NextL

FairSpec == InitBatch /\ [][NextBatch]_vars /\ WF_vars(NextBatch)

----------------------------------------------------------------------------
(* Two runs on the same unchanged directory, each on a new processor (the  *)
(* convenience function makes one per call): the external calls do at the  *)
(* second run what they did at the first.                                  *)

Rerun ==
    /\ Ended /\ runs_left > 0
    /\ runs_left' = runs_left - 1
    /\ prev' = [result |-> result, listing_ascending |-> listing_ascending]
    /\ pc' = "start"
    /\ listing_ascending' = TRUE /\ all_files' = <<>> /\ idx' = 1
    /\ doc_type' = "none" /\ conversion_result' = NoConversion
    /\ out' = <<>> /\ successful_docs' = 0 /\ failed_docs' = <<>>
    /\ total_chunks' = 0 /\ failed_count' = 0
    /\ proc' = NoProcessor /\ built' = NoneBuilt /\ calls' = <<>>
    /\ result' = NoResult /\ summary' = NoSummary
    /\ UNCHANGED <<env, chat, written, oracle>>

\* what a file does at both runs: it gives MaxChunks chunks, or fails at the
\* conversion, or fails at the contextualize call on its last chunk
Repeated ==
    { b \in [conv : {"ok", "rejected"}, nchunks : {-1, MaxChunks},
             raiseAt : {-1, MaxChunks - 1, MaxChunks}] :
        IF b.conv = "ok" THEN b.nchunks = MaxChunks /\ b.raiseAt >= MaxChunks - 1
        ELSE b.nchunks = -1 /\ b.raiseAt = -1 }

InitTwoRuns ==
    /\ impl \in {"U", "L"}
    /\ recursive \in (IF impl = "L" THEN {FALSE} ELSE BOOLEAN)
    /\ root = "dir"
    /\ tree \in Trees
    /\ oracle \in [FilesOf(tree) -> Repeated]
    /\ Fresh /\ Idle
    /\ runs_left = MaxReruns
    /\ prev = NoPrev

NextTwoRuns == NextU \/ NextL \/ Rerun

SpecTwoRuns == InitTwoRuns /\ [][NextTwoRuns]_vars

----------------------------------------------------------------------------
(* The classifier on any file name: one file in the directory, named by up *)
(* to MaxAtoms pieces.                                                     *)

Atoms == { <<"a">>, <<".">>, <<"m", "p", "3">>, <<"M", "P", "3">>,
           <<"W", "a", "v">>, <<"m", "4", "a">>, <<"F", "L", "A", "C">>,
           <<"m", "d">> }

RECURSIVE Concat(_)
Concat(pieces) == IF pieces = <<>> THEN <<>> ELSE pieces[1] \o Concat(Tail(pieces))

\* the names a directory entry can have: not empty, not "." and not ".."
FileNames ==
    { Concat(ps) : ps \in UNION { [1..n -> Atoms] : n \in 1..MaxAtoms } }
        \ { <<".">>, <<".", ".">> }

InitClassify ==
    /\ impl \in {"U", "D"}
    /\ recursive = FALSE
    /\ root = "dir"
    /\ tree \in { { [path |-> <<name>>, is_file |-> TRUE] } : name \in FileNames }
    /\ oracle = [f \in FilesOf(tree) |-> [conv |-> "ok", nchunks |-> 0, raiseAt |-> 0]]
    /\ Fresh /\ Idle
    /\ runs_left = 0
    /\ prev = NoPrev

NextClassify == NextU \/ NextD

SpecClassify == InitClassify /\ [][NextClassify]_vars

----------------------------------------------------------------------------
(* main.py: the interactive session loop *)

Whitespace == {" ", "\t"}

\* a query kept as typed
unstripped(s) == s

RECURSIVE lstrip(_)
lstrip(s) ==
    IF s # <<>> /\ Head(s) \in Whitespace THEN lstrip(Tail(s)) ELSE s

RECURSIVE rstrip(_)
rstrip(s) ==
    IF s # <<>> /\ s[Len(s)] \in Whitespace
    THEN rstrip(SubSeq(s, 1, Len(s) - 1)) ELSE s

\* str.strip()
strip(s) == rstrip(lstrip(s))

EXIT_COMMANDS == { <<"e", "x", "i", "t">>, <<"q", "u", "i", "t">> }

\* user_query.lower() in ['exit', 'quit']
is_exit(query) == Lower(query) \in EXIT_COMMANDS

\* the lines a user types: empty, blank, questions, exit commands in several
\* spellings, and a question that starts with an exit command
InputLines ==
    { <<>>, <<" ", "\t">>, <<"a">>, <<" ", "a", " ", "b", " ">>,
      <<"e", "x", "i", "t">>, <<" ", "E", "x", "i", "t", "\t">>,
      <<"Q", "U", "I", "T">>, <<"e", "x", "i", "t", " ", "a">> }

\* what run_agent or stream_response raises when it fails
AgentError == [cls |-> "RuntimeError", msg |-> <<"agent failed">>]

\* input(...).strip() and the two tests that follow it; input() raises
\* EOFError when the input has ended
M_Input ==
    /\ mpc = "input"
    /\ IF stdin = <<>>
       THEN /\ mpc' = "raised"
            /\ UNCHANGED <<stdin, consumed, user_query>>
       ELSE /\ user_query' = strip(Head(stdin))
            /\ stdin' = Tail(stdin)
            /\ consumed' = Append(consumed, Head(stdin))
            /\ mpc' = IF is_exit(user_query') THEN "done"
                      ELSE IF user_query' = <<>> THEN "input"
                      ELSE "run_agent"
    /\ UNCHANGED <<batch, agent_calls, errors>>

\* agent_response = run_agent(user_query), inside the try
M_RunAgent ==
    /\ mpc = "run_agent"
    /\ \E outcome \in {"returns", "raises"} :
         /\ agent_calls' = Append(agent_calls,
                [line |-> Len(consumed), query |-> user_query, outcome |-> outcome])
         /\ IF outcome = "returns"
            THEN mpc' = "stream" /\ errors' = errors
            ELSE IF Catches("Exception", AgentError)
            THEN mpc' = "input" /\ errors' = errors + 1
            ELSE mpc' = "raised" /\ errors' = errors
    /\ UNCHANGED <<batch, stdin, consumed, user_query>>

\* stream_response(agent_response), inside the try
M_Stream ==
    /\ mpc = "stream"
    /\ \E outcome \in {"returns", "raises"} :
         IF outcome = "returns"
         THEN mpc' = "input" /\ errors' = errors
         ELSE IF Catches("Exception", AgentError)
         THEN mpc' = "input" /\ errors' = errors + 1
         ELSE mpc' = "raised" /\ errors' = errors
    /\ UNCHANGED <<batch, stdin, consumed, user_query, agent_calls>>

\* a session on any input of up to MaxLines lines; no batch run goes on
InitMain ==
    /\ impl = "U" /\ recursive = FALSE /\ root = "dir" /\ tree = {}
    /\ oracle = [f \in {} |-> Unset]
    /\ Fresh
    /\ runs_left = 0 /\ prev = NoPrev
    /\ mpc = "input"
    /\ stdin \in UNION { [1..n -> InputLines] : n \in 0..MaxLines }
    /\ consumed = <<>> /\ user_query = <<>> /\ agent_calls = <<>> /\ errors = 0

NextMain == M_Input \/ M_RunAgent \/ M_Stream

SpecMain == InitMain /\ [][NextMain]_vars

----------------------------------------------------------------------------
(* Vocabulary of the properties *)

\* the environment lets the file through conversion and chunking
Succeeds(f) ==
    /\ oracle[f].conv = "ok"
    /\ impl # "D" => (oracle[f].nchunks >= 0 /\ oracle[f].raiseAt = oracle[f].nchunks)

\* the environment fails the file at the conversion or at the chunking
Fails(f) ==
    \/ oracle[f].conv \notin {"unset", "ok"}
    \/ oracle[f].nchunks >= 0 /\ oracle[f].raiseAt < oracle[f].nchunks

WasConverted(f) == \E c \in 1..Len(calls) : calls[c].op = "convert" /\ calls[c].file = f

WasChunked(f) == \E c \in 1..Len(calls) : calls[c].op = "chunk" /\ calls[c].file = f

\* the positions of the records of source p in a collection
RecordsOf(docs, p) == { j \in 1..Len(docs) : docs[j].source = p }

Sources(docs) == { docs[j].source : j \in 1..Len(docs) }

\* the 1-based positions of all_files the predicate holds at
Positions(P(_)) == { i \in 1..Len(all_files) : P(all_files[i]) }

----------------------------------------------------------------------------
(* C1 - Failure isolation. When a run of U or L on a directory has ended,  *)
(* every discovered file was handed to the converter, every file whose     *)
(* conversion succeeded was handed to the chunker, and every file that     *)
(* succeeds has each of its chunks as a record of the returned collection, *)
(* whichever files fail at conversion or at chunking.                      *)
C1_FailureIsolation ==
    (impl \in {"U", "L"} /\ root = "dir" /\ Ended) =>
        \A i \in 1..Len(all_files) :
            LET f == all_files[i]
            IN  /\ WasConverted(f)
                /\ oracle[f].conv = "ok" => WasChunked(f)
                /\ Succeeds(f) =>
                     \A k \in 0..(oracle[f].nchunks - 1) :
                        \E j \in RecordsOf(result.value, f) :
                           /\ result.value[j].document_chunk_index = k
                           /\ result.value[j].page_content = <<f, k>>

\* a run of L that failed one file at conversion, a later one at chunking,
\* and returned the records of a third that came after both
C1_Witness ==
    /\ impl = "L" /\ pc = "done" /\ Len(all_files) = 3
    /\ oracle[all_files[1]].conv = "rejected"
    /\ oracle[all_files[2]].nchunks = 1 /\ oracle[all_files[2]].raiseAt = -1
    /\ Succeeds(all_files[3]) /\ oracle[all_files[3]].nchunks = 2
    /\ Cardinality(RecordsOf(result.value, all_files[3])) = 2

(* C2 - Per-document index invariant. In the collection a run of U or L    *)
(* returns, the records of every source path p carry the indexes 0..n-1,   *)
(* each once, and total_chunks_in_document = n, n being the number of      *)
(* records with source p.                                                  *)
C2_PerDocumentIndex ==
    (impl \in {"U", "L"} /\ pc = "done") =>
        \A p \in Sources(result.value) :
            LET at == RecordsOf(result.value, p)
                n == Cardinality(at)
            IN  /\ { result.value[j].document_chunk_index : j \in at } = 0..(n - 1)
                /\ \A j \in at : result.value[j].total_chunks_in_document = n

(* C3 - Accounting. When a run has ended, the files counted as successes   *)
(* and the files recorded as failures add up to the files discovered: the  *)
(* successes are the files that succeed, the failures are the files that   *)
(* fail, each once and in the order of processing.                         *)
C3_Accounting ==
    /\ (impl \in {"U", "L"} /\ Ended) =>
          /\ successful_docs + Len(failed_docs) = Len(all_files)
          /\ successful_docs = Cardinality(Positions(Succeeds))
          /\ Len(failed_docs) = Cardinality(Positions(Fails))
          /\ \A k \in 1..Len(failed_docs) :
                \E i \in Positions(Fails) :
                   /\ Cardinality({ j \in Positions(Fails) : j <= i }) = k
                   /\ (IF impl = "U" THEN failed_docs[k][1] ELSE failed_docs[k])
                         = Name(all_files[i])
    /\ (impl = "D" /\ pc = "done") =>
          /\ successful_docs + failed_count = Len(all_files)
          /\ Len(out) = Len(all_files)
          /\ successful_docs = Cardinality(Positions(Succeeds))
          /\ \A i \in 1..Len(all_files) :
                /\ out[i].filename = Name(all_files[i])
                /\ (out[i].status = "Success") = Succeeds(all_files[i])

\* a run of U that ended with one file counted as a success, one recorded
\* as a conversion failure and one as a chunking failure
C3_Witness ==
    /\ impl = "U" /\ pc = "done"
    /\ successful_docs = 1 /\ Len(failed_docs) = 2
    /\ \E i, j \in 1..Len(all_files) :
          /\ oracle[all_files[i]].conv = "vanished"
          /\ oracle[all_files[j]].conv = "ok"
          /\ oracle[all_files[j]].raiseAt = 0 /\ oracle[all_files[j]].nchunks = 2

\* the positions of the calls to a converter
Conversions == { c \in 1..Len(calls) : calls[c].op = "convert" }

Indexes(docs) ==
    [j \in 1..Len(docs) |-> <<docs[j].source, docs[j].document_chunk_index>>]

(* C5 - Determinism. Two runs of U or L on the same unchanged directory,   *)
(* with external calls that do the same at both runs and with the          *)
(* directory listed in any two orders, return the same sequence of         *)
(* (source, document_chunk_index).                                         *)
C5_Determinism ==
    (pc = "done" /\ prev.result.kind = "return") =>
        Indexes(result.value) = Indexes(prev.result.value)

\* a second run has returned records of two files, and the directory was
\* listed in ascending order at one run and in another order at the other
C5_Witness ==
    /\ pc = "done" /\ prev.result.kind = "return"
    /\ prev.listing_ascending # listing_ascending
    /\ Cardinality(Sources(result.value)) >= 2

(* C6 - Failure kind matches cause. A conversion that fails because the    *)
(* audio decoding toolchain is missing is recorded with the 'FFmpeg not    *)
(* found' message, and a conversion that fails for another reason (the     *)
(* file vanished, the converter rejected it) is never recorded with it.    *)
C6_FailureKind ==
    /\ (impl = "U" /\ pc = "u_chunk" /\ ~conversion_result.success) =>
          ((conversion_result.error_message = FFMPEG_U)
              = (oracle[file_path].conv = "ffmpeg_missing"))
    /\ impl = "D" =>
          \A i \in 1..Len(out) :
              out[i].status = "Failed" =>
                  ((out[i].error_message = FFMPEG_D)
                      = (oracle[all_files[i]].conv = "ffmpeg_missing"))

(* C7 - Invalid root. A run on a root that is missing or is no directory   *)
(* ends before any conversion and returns the empty result, as a run on    *)
(* an empty directory does.                                                *)
C7_InvalidRoot ==
    (root # "dir" /\ Ended) => (result = Returned(<<>>) /\ calls = <<>>)

\* the regular files the entry point was listed
Discovered == { e.path : e \in { x \in Listed : x.is_file } }

\* the file is Recorded (its chunks are records of the result) or Failed
\* (its name is in the failure list)
Terminal(f) ==
    \/ /\ Succeeds(f)
       /\ \A k \in 0..(oracle[f].nchunks - 1) :
             \E j \in RecordsOf(result.value, f) :
                result.value[j].document_chunk_index = k
    \/ /\ Fails(f)
       /\ \E k \in 1..Len(failed_docs) :
             (IF impl = "U" THEN failed_docs[k][1] ELSE failed_docs[k]) = Name(f)

Completed ==
    /\ pc = "done" /\ result.kind = "return"
    /\ { all_files[i] : i \in 1..Len(all_files) } = Discovered
    /\ \A f \in Discovered : Terminal(f)

(* C8 - The run always completes. A run of U or L on an existing directory *)
(* eventually returns, with every discovered file Recorded or Failed and   *)
(* the records of the files that succeeded in the result; no failure of a  *)
(* conversion or of a chunking ends the run by an exception.               *)
C8_RunCompletes ==
    (impl \in {"U", "L"} /\ root = "dir") ~> Completed

\* a completed run of U that met a missing toolchain, a vanished file and a
\* chunking error, and returned the records of the file that succeeded
C8_Witness ==
    /\ impl = "U" /\ Completed
    /\ \E f, g, h, k \in Discovered :
          /\ oracle[f].conv = "ffmpeg_missing"
          /\ oracle[g].conv = "vanished"
          /\ oracle[h].conv = "ok" /\ oracle[h].raiseAt < oracle[h].nchunks
          /\ Succeeds(k) /\ oracle[k].nchunks = 2
    /\ Len(result.value) = 2

(* C9 - Construct at most once. During a run at most one generic converter *)
(* and one audio converter, one tokenizer and one chunker are constructed, *)
(* and every call of a kind goes to the same instance.                     *)
C9_ConstructOnce ==
    /\ built.text <= 1 /\ built.audio <= 1
    /\ built.tokenizer <= 1 /\ built.chunker <= 1
    /\ \A c, d \in 1..Len(calls) :
          calls[c].kind = calls[d].kind => calls[c].inst = calls[d].inst

(* C10 - Format classifier. The tag is AUDIO or TEXT, it is AUDIO exactly  *)
(* when the name ends in a dot and mp3, wav, m4a or flac in any case with  *)
(* something before the dot, and the classification leaves the processor   *)
(* as it was.                                                              *)
C10_Classifier ==
    /\ doc_type \in {"none", AUDIO, TEXT}
    /\ doc_type # "none" =>
          ((doc_type = AUDIO) = HasAudioExtension(all_files[1]))
    /\ (impl = "U" /\ pc = "u_convert") =>
          /\ doc_type # "none"
          /\ proc = NoProcessor /\ built = NoneBuilt /\ calls = <<>>
          /\ out = <<>> /\ successful_docs = 0 /\ failed_docs = <<>>

\* a.Wav was classified AUDIO
C10_Witness ==
    /\ impl = "U" /\ pc = "u_convert"
    /\ all_files = << << <<"a", ".", "W", "a", "v">> >> >>
    /\ doc_type = AUDIO

\* the failing files, in the order of processing
FailedFiles == SelectSeq(all_files, Fails)

\* the message U keeps for a file that fails: the handler's text for a
\* FileNotFoundError on an audio file, the exception's own text otherwise
MessageOf(f) ==
    IF oracle[f].conv # "ok"
    THEN LET e == ConvertError(oracle[f].conv)
         IN  IF e.cls = "FileNotFoundError" /\ HasAudioExtension(f)
             THEN FFMPEG_U ELSE e.msg
    ELSE <<"Chunking failed: ">> \o ChunkError.msg

RECURSIVE SumOfTotals(_, _)
SumOfTotals(docs, S) ==
    IF S = {} THEN 0
    ELSE LET j == CHOOSE x \in S : TRUE
         IN  docs[j].total_chunks_in_document + SumOfTotals(docs, S \ {j})

(* C12 - Aggregate sum invariant, as claimed: in the collection a run of U *)
(* or L returns, the total_chunks_in_document values of the records of a   *)
(* source path add up to the number of records with that source path.      *)
C12_AggregateSum ==
    (impl \in {"U", "L"} /\ pc = "done") =>
        \A p \in Sources(result.value) :
            SumOfTotals(result.value, RecordsOf(result.value, p))
                = Cardinality(RecordsOf(result.value, p))

(* C12 as amended - every record of a source path carries the number of    *)
(* chunks the chunker gave for that file, so the values add up to the      *)
(* number of records times the number of chunks; a file that succeeded has *)
(* one record per chunk, and the sum is then the square of the number of   *)
(* its records.                                                            *)
C12_AggregateProduct ==
    (impl \in {"U", "L"} /\ pc = "done") =>
        \A p \in Sources(result.value) :
            LET at == RecordsOf(result.value, p)
                n == Cardinality(at)
            IN  /\ \A j \in at :
                      result.value[j].total_chunks_in_document = oracle[p].nchunks
                /\ SumOfTotals(result.value, at) = n * oracle[p].nchunks
                /\ Succeeds(p) => SumOfTotals(result.value, at) = n * n

\* a run of U returned two records of one file, each with the total 2: the
\* values add up to 4
C12_Witness ==
    /\ impl = "U" /\ pc = "done"
    /\ \E p \in Sources(result.value) :
          /\ Cardinality(RecordsOf(result.value, p)) = 2
          /\ SumOfTotals(result.value, RecordsOf(result.value, p)) = 4

\* the positions of the calls of an operation on a file
CallsOn(op, f) ==
    { c \in 1..Len(calls) : calls[c].op = op /\ calls[c].file = f }

\* one step of U on the current file: classify, then convert, then chunk and
\* record or fail, each once, and the loop moves on after the last of them
C13_Step ==
    impl = "U" =>
      /\ pc = "u_classify" =>
            /\ pc' = "u_convert" /\ idx' = idx
            /\ CallsOn("convert", file_path) = {}
            /\ calls' = calls /\ out' = out /\ failed_docs' = failed_docs
      /\ pc = "u_convert" =>
            /\ pc' = "u_chunk" /\ idx' = idx
            /\ doc_type = classify_document(file_path)
            /\ CallsOn("chunk", file_path) = {}
            /\ Len(calls') = Len(calls) + 1
            /\ calls'[Len(calls')].op = "convert"
            /\ calls'[Len(calls')].file = file_path
            /\ out' = out /\ failed_docs' = failed_docs
      /\ pc = "u_chunk" =>
            /\ pc' \in {"u_classify", "u_finish"} /\ idx' = idx + 1
            /\ Cardinality(CallsOn("convert", file_path)) = 1
            /\ IF oracle[file_path].conv # "ok"
               THEN /\ calls' = calls /\ out' = out
                    /\ failed_docs' = Append(failed_docs,
                                         <<Name(file_path), MessageOf(file_path)>>)
               ELSE /\ Len(calls') = Len(calls) + 1
                    /\ calls'[Len(calls')].op = "chunk"
                    /\ calls'[Len(calls')].file = file_path
                    /\ IF oracle'[file_path].raiseAt = oracle'[file_path].nchunks
                       THEN /\ failed_docs' = failed_docs
                            /\ Len(out') = Len(out) + oracle'[file_path].nchunks
                            /\ SubSeq(out', 1, Len(out)) = out
                            /\ \A j \in (Len(out) + 1)..Len(out') :
                                  /\ out'[j].source = file_path
                                  /\ out'[j].document_chunk_index = j - Len(out) - 1
                       ELSE /\ out' = out
                            /\ Len(failed_docs') = Len(failed_docs) + 1
                            /\ failed_docs'[Len(failed_docs')][1] = Name(file_path)

\* where the files of a run of U stand: records are of files that reached
\* Recorded, and at the end every file is Recorded or Failed and not both
C13_Files ==
    impl = "U" =>
      /\ \A p \in Sources(out) :
            /\ Succeeds(p)
            /\ \E i \in 1..(idx - 1) : all_files[i] = p
            /\ Cardinality(RecordsOf(out, p)) = oracle[p].nchunks
      /\ \A i \in 1..Len(all_files) :
            /\ Cardinality(CallsOn("convert", all_files[i])) <= 1
            /\ Cardinality(CallsOn("chunk", all_files[i])) <= 1
            /\ \A c \in CallsOn("chunk", all_files[i]) :
                  /\ oracle[all_files[i]].conv = "ok"
                  /\ \E d \in CallsOn("convert", all_files[i]) : d < c
      /\ pc = "done" =>
            /\ result.value = out
            /\ Len(failed_docs) = Len(FailedFiles)
            /\ \A k \in 1..Len(FailedFiles) :
                  /\ failed_docs[k][1] = Name(FailedFiles[k])
                  /\ RecordsOf(out, FailedFiles[k]) = {}
            /\ \A i \in 1..Len(all_files) :
                  /\ Succeeds(all_files[i]) # Fails(all_files[i])
                  /\ Cardinality(CallsOn("convert", all_files[i])) = 1
                  /\ Succeeds(all_files[i]) =>
                        Cardinality(RecordsOf(out, all_files[i]))
                            = oracle[all_files[i]].nchunks

(* C13 - Per-file state machine in U. Every discovered file is classified, *)
(* then converted, then chunked, then recorded, each step at most once; a  *)
(* file whose conversion fails is not passed to the chunker; every file    *)
(* ends Recorded or Failed and not both; records are appended only when    *)
(* the file reaches Recorded, so a Failed file has no record in the        *)
(* output.                                                                 *)
C13_StateMachine == [][C13_Step]_vars /\ []C13_Files

\* a run of U ended with a file Recorded with two records, a file Failed at
\* the conversion and a file Failed at the second of its two chunks
C13_Witness ==
    /\ impl = "U" /\ pc = "done" /\ Len(out) = 2
    /\ \E f, g, h \in Discovered :
          /\ Succeeds(f) /\ oracle[f].nchunks = 2
          /\ oracle[g].conv = "rejected" /\ CallsOn("chunk", g) = {}
          /\ oracle[h].conv = "ok" /\ oracle[h].nchunks = 2 /\ oracle[h].raiseAt = 1
          /\ CallsOn("chunk", h) # {}

\* the files of a run of the entry points E are the regular files of the
\* listing, immediate children alone when not recursive, in ascending path
\* order; they are converted in that order, and the results or records are
\* in that order, the records of a file by ascending document_chunk_index
TraversalOrder(E) ==
    (impl \in E /\ pc \notin {"start", "raised"}) =>
        /\ { all_files[i] : i \in 1..Len(all_files) } = Discovered
        /\ Len(all_files) = Cardinality(Discovered)
        /\ ~recursive => \A i \in 1..Len(all_files) : Len(all_files[i]) = 1
        /\ \A i, j \in 1..Len(all_files) :
              i < j => PathLess(all_files[i], all_files[j])
        /\ \A c, d \in Conversions :
              c < d => PathLess(calls[c].file, calls[d].file)
        /\ IF impl = "D"
           THEN \A i \in 1..Len(out) : out[i].filename = Name(all_files[i])
           ELSE \A j, k \in 1..Len(out) :
                  j < k =>
                    \/ PathLess(out[j].source, out[k].source)
                    \/ /\ out[j].source = out[k].source
                       /\ out[j].document_chunk_index < out[k].document_chunk_index
        /\ pc = "done" => result.value = out

(* C14 - Traversal order. In U, L and D only regular files are processed,  *)
(* immediate children alone when recursive is false, in ascending path     *)
(* order whatever order the listing comes in, and the results or records   *)
(* returned are in that order.                                             *)
C14_TraversalOrder == TraversalOrder({"U", "L", "D"})

(* C15 - Global chunk index. In the list a run of L returns, the record at *)
(* position p, counted from 0, carries chunk_index = p: the values are     *)
(* unique and contiguous from 0, whichever files fail and wherever.        *)
C15_GlobalChunkIndex ==
    (impl = "L" /\ pc = "done") =>
        \A j \in 1..Len(result.value) : result.value[j].chunk_index = j - 1

(* C16 - Output files of D. After a run of D, the file at the output_path  *)
(* of every result with status Success holds the conversion of that        *)
(* result's own input: no output is replaced by that of another input of   *)
(* the run.                                                                *)
C16_OutputFiles ==
    (impl = "D" /\ pc = "done") =>
        \A i \in 1..Len(out) :
            out[i].status = "Success" =>
                /\ out[i].output_path \in DOMAIN written
                /\ written[out[i].output_path] = all_files[i]

\* the lines that are an exit command once trimmed, in any case
ExitLines ==
    { <<"e", "x", "i", "t">>, <<" ", "E", "x", "i", "t", "\t">>,
      <<"Q", "U", "I", "T">> }

\* the lines that are empty once trimmed
BlankLines == { <<>>, <<" ", "\t">> }

\* the positions of the lines read that come before the first exit command
\* and are not empty once trimmed
Questions ==
    { i \in 1..Len(consumed) :
        /\ consumed[i] \notin BlankLines \cup ExitLines
        /\ \A j \in 1..i : consumed[j] \notin ExitLines }

\* run_agent was called once for every question read, the one being handed
\* over excepted, with the trimmed line; the session has ended by the return
\* exactly when the line read last is the first exit command, and otherwise
\* only by the end of the input
C17_Calls ==
    mpc # "idle" =>
      /\ { agent_calls[c].line : c \in 1..Len(agent_calls) }
            = Questions \ (IF mpc = "run_agent" THEN {Len(consumed)} ELSE {})
      /\ \A c, d \in 1..Len(agent_calls) :
            agent_calls[c].line = agent_calls[d].line => c = d
      /\ \A c \in 1..Len(agent_calls) :
            LET q == agent_calls[c].query
            IN  /\ q # <<>> /\ q[1] \notin Whitespace /\ q[Len(q)] \notin Whitespace
                /\ \E a, b \in 0..Len(consumed[agent_calls[c].line]) :
                      q = SubSeq(consumed[agent_calls[c].line], a + 1, b)
      /\ \A i \in 1..Len(consumed) :
            consumed[i] \in ExitLines => i = Len(consumed)
      /\ (mpc = "done") = (consumed # <<>> /\ consumed[Len(consumed)] \in ExitLines)
      /\ mpc = "raised" => stdin = <<>>

\* a failure of run_agent or of the streaming is printed and the loop goes
\* back to input(); nothing is read or called once the session has ended
C17_Step ==
    /\ mpc \in {"run_agent", "stream"} => mpc' \in {"stream", "input"}
    /\ (mpc = "run_agent" /\ mpc' = "input") => errors' = errors + 1
    /\ mpc \in {"done", "raised"} =>
          UNCHANGED <<mpc, stdin, consumed, agent_calls>>

(* C17 - Interactive session loop. run_agent is called exactly once for    *)
(* every line that is not empty once trimmed and comes before the first    *)
(* line that is exit or quit (trimmed, in any case), and for no other      *)
(* line; an exception of run_agent or of the streaming does not end the    *)
(* session; the session ends at the first exit or quit line, with no call  *)
(* of run_agent for it.                                                    *)
C17_SessionLoop == [][C17_Step]_vars /\ []C17_Calls

\* a session read a blank line, a question whose run_agent call raised, a
\* second question whose call returned, and ended at " Exit "
C17_Witness ==
    /\ mpc = "done" /\ Len(consumed) = 4
    /\ consumed[1] \in BlankLines
    /\ Len(agent_calls) = 2
    /\ agent_calls[1].line = 2 /\ agent_calls[1].outcome = "raises"
    /\ agent_calls[2].line = 3 /\ agent_calls[2].outcome = "returns"
    /\ consumed[4] = <<" ", "E", "x", "i", "t", "\t">>

====
